---- MODULE Spec2Model ----
(***************************************************************************)
(* Model of etl.py: the song and log transformers (process_song_file,      *)
(* process_log_file), the batch runner (process_data) and main.            *)
(*                                                                         *)
(* Python values are modelled as strings; PyNone and NaN are the two       *)
(* "null" values a pandas DataFrame can hold.  A statement executed on the *)
(* cursor is a record [q, args]; inside the batch runner it is tagged with *)
(* the file it came from (src = <<pass, position>>).                       *)
(***************************************************************************)
EXTENDS Integers, Sequences, FiniteSets, TLC

VARIABLES
    pc,         \* position of the control flow (main / process_data / transformer)
    handle,     \* the names conn and cur of main: "unbound" | "conn_only" | "open" | "closed"
    call_no,    \* which process_data call of main is running (0: none yet)
    num_files,  \* len(all_files) of the running process_data call
    idx,        \* the loop variable i of process_data (1-based)
    exc,        \* the exception in flight: "none" | "store" | "other" | "unbound"
    txn,        \* statements executed on cur since the last commit/rollback
    committed,  \* writes made durable by conn.commit(), in order
    stdout,     \* lines printed so far
    calls,      \* history of func / conn.commit / conn.rollback calls
    df          \* the DataFrame read by the transformer under study

vars == <<pc, handle, call_no, num_files, idx, exc, txn, committed, stdout, calls, df>>

---------------------------------------------------------------------------
(* Bounds *)

MaxFiles == 2       \* files found under one root by os.walk
MaxRecords == 2     \* records (lines) of one log file

---------------------------------------------------------------------------
(* Python values *)

PyNone == "<None>"
NaN == "<nan>"
EmptyStr == ""

\* bool(v): None and the empty string are falsy; float('nan') is truthy.
Truthy(v) == v \notin {PyNone, EmptyStr}

\* pandas isna(v): None and NaN are both missing values.
IsNull(v) == v \in {PyNone, NaN}

RECURSIVE Flatten(_)
Flatten(ss) == IF ss = <<>> THEN <<>> ELSE Head(ss) \o Flatten(Tail(ss))

Prefix(s, n) == SubSeq(s, 1, n)

---------------------------------------------------------------------------
(* Calendar breakdown of an epoch-millisecond timestamp                    *)
(* (pd.to_datetime(..., unit='ms') and the .dt accessors).                 *)

MsPerHour == 60 * 60 * 1000
MsPerDay == 24 * MsPerHour

DaysFromCivil(y0, m, d) ==
    LET y == IF m <= 2 THEN y0 - 1 ELSE y0
        era == y \div 400
        yoe == y - era * 400
        mp == IF m > 2 THEN m - 3 ELSE m + 9
        doy == (153 * mp + 2) \div 5 + d - 1
        doe == yoe * 365 + yoe \div 4 - yoe \div 100 + doy
    IN era * 146097 + doe - 719468

CivilFromDays(days) ==
    LET z == days + 719468
        era == z \div 146097
        doe == z - era * 146097
        yoe == (doe - doe \div 1460 + doe \div 36524 - doe \div 146096) \div 365
        doy == doe - (365 * yoe + yoe \div 4 - yoe \div 100)
        mp == (5 * doy + 2) \div 153
        d == doy - (153 * mp + 2) \div 5 + 1
        m == IF mp < 10 THEN mp + 3 ELSE mp - 9
        y == yoe + era * 400 + (IF m <= 2 THEN 1 ELSE 0)
    IN [year |-> y, month |-> m, day |-> d]

\* Monday = 0; 1970-01-01 was a Thursday.
Weekday(days) == (days + 3) % 7

\* ISO week number: the week of the year that holds this week's Thursday.
IsoWeek(days) ==
    LET thu == days - Weekday(days) + 3
        y == CivilFromDays(thu).year
    IN (thu - DaysFromCivil(y, 1, 1)) \div 7 + 1

\* one row of time_df: (timestamp, hour, day, weekofyear, month, year, weekday)
TimeRow(ts) ==
    LET days == ts \div MsPerDay
        c == CivilFromDays(days)
    IN <<ts, (ts \div MsPerHour) % 24, c.day, IsoWeek(days), c.month, c.year,
         Weekday(days)>>

---------------------------------------------------------------------------
(* The store's lookup query (sql_queries.song_select): song_id and         *)
(* artist_id of a stored song by exact match on (title, duration).         *)

IsSongInsert(st) == st.q = "song_table_insert"

\* cur.execute(song_select, (title, duration)); cur.fetchone():
\* <<>> stands for "no row" (fetchone() returning None).
song_select(store, title, duration) ==
    LET hits == SelectSeq(store, LAMBDA st:
                    IsSongInsert(st) /\ st.args[2] = title /\ st.args[5] = duration)
    IN IF hits = <<>> THEN <<>> ELSE <<hits[1].args[1], hits[1].args[3]>>

---------------------------------------------------------------------------
(* process_song_file *)

\* df[['song_id','title','artist_id','year','duration']].values[0].tolist()
song_data(d) == <<d[1].song_id, d[1].title, d[1].artist_id, d[1].year, d[1].duration>>

\* df[['artist_id','artist_name','artist_location',...]].values[0].tolist()
artist_data(d) ==
    <<d[1].artist_id, d[1].artist_name, d[1].artist_location,
      d[1].artist_latitude, d[1].artist_longitude>>

\* the statements process_song_file executes, in order, when none raises
process_song_file(d, store) ==
    << [q |-> "song_table_insert", args |-> song_data(d)],
       [q |-> "artist_table_insert", args |-> artist_data(d)] >>

---------------------------------------------------------------------------
(* process_log_file *)

\* mutant of NextSongFilter: the page filter left out
NoPageFilter(r) == TRUE

\* df[df['page'] == 'NextSong']
NextSongFilter(r) == r.page = "NextSong"

\* the rows of time_df, one per filtered record, in file order
time_df(d) ==
    LET kept == SelectSeq(d, NextSongFilter)
    IN [k \in 1..Len(kept) |-> TimeRow(kept[k].ts)]

\* df[['userId', 'firstName', 'lastName', 'gender', 'level']]
UserProjection(d) ==
    [k \in 1..Len(d) |->
        <<d[k].userId, d[k].firstName, d[k].lastName, d[k].gender, d[k].level>>]

RECURSIVE DropDuplicates(_, _)
\* user_df.drop_duplicates(subset='userId'): keep the first row of each userId
DropDuplicates(rows, seen) ==
    IF rows = <<>> THEN <<>>
    ELSE IF Head(rows)[1] \in seen
         THEN DropDuplicates(Tail(rows), seen)
         ELSE <<Head(rows)>> \o DropDuplicates(Tail(rows), seen \cup {Head(rows)[1]})

\* user_df.dropna(): drop the rows with a missing value in any column
DropNa(rows) == SelectSeq(rows, LAMBDA r: \A k \in 1..Len(r): ~IsNull(r[k]))

\* mutant of user_df: rows with a null dropped before the duplicates
user_df_dropna_first(d) == DropDuplicates(DropNa(UserProjection(d)), {})

\* the rows of user_df after drop_duplicates and dropna
user_df(d) == DropNa(DropDuplicates(UserProjection(d), {}))

\* songplay_userId: row.userId if it is truthy, else None
songplay_userId(r) == IF Truthy(r.userId) THEN r.userId ELSE PyNone

\* songid, artistid = results if results else (None, None)
LookupIds(results) == IF results # <<>> THEN results ELSE <<PyNone, PyNone>>

\* if songplay_userId and songid and artistid
EmitsSongplay(r, results) ==
    /\ Truthy(songplay_userId(r))
    /\ Truthy(LookupIds(results)[1])
    /\ Truthy(LookupIds(results)[2])

songplay_data(r, results) ==
    <<r.sessionId, r.ts, songplay_userId(r), r.level, LookupIds(results)[1],
      LookupIds(results)[2], r.location, r.userAgent>>

\* one iteration of the songplay loop: the lookup, then the insert if emitted
SongplayIteration(r, store) ==
    LET results == song_select(store, r.song, r.length)
    IN <<[q |-> "song_select", args |-> <<r.song, r.length>>]>>
       \o (IF EmitsSongplay(r, results)
           THEN <<[q |-> "songplay_table_insert", args |-> songplay_data(r, results)]>>
           ELSE <<>>)

\* the statements process_log_file executes, in order, when none raises
process_log_file(d, store) ==
    [k \in 1..Len(time_df(d)) |-> [q |-> "time_table_insert", args |-> time_df(d)[k]]]
    \o [k \in 1..Len(user_df(d)) |-> [q |-> "user_table_insert", args |-> user_df(d)[k]]]
    \o Flatten([k \in 1..Len(d) |-> SongplayIteration(d[k], store)])

---------------------------------------------------------------------------
(* Inputs: the contents of the files under data/song_data and data/log_data *)

SongRecord(song_id, title, artist_id) ==
    [song_id |-> song_id, title |-> title, artist_id |-> artist_id, year |-> "2000",
     duration |-> "180.5", artist_name |-> "N", artist_location |-> "L",
     artist_latitude |-> "1.0", artist_longitude |-> "2.0"]

SongA == SongRecord("S1", "T", "A1")
SongB == SongRecord("S2", "U", PyNone)

SongFiles == {<<SongA>>, <<SongB>>, <<SongB, SongA>>}

LogRecord(page, ts, userId, firstName, song) ==
    [page |-> page, ts |-> ts, userId |-> userId, firstName |-> firstName,
     lastName |-> "B", gender |-> "F", level |-> "free", song |-> song,
     length |-> "180.5", sessionId |-> "5", location |-> "X", userAgent |-> "Y"]

TsValues == {18000000, 950400000}

\* a JSON null, before pandas gives it a Python value
JsonNull == "null"

\* the lines a log file can hold
LogLines ==
    {LogRecord(page, ts, userId, firstName, song) :
        page \in {"NextSong", "Home"}, ts \in TsValues,
        userId \in {JsonNull, EmptyStr, "10"},
        firstName \in {JsonNull, "A"}, song \in {"T", "U"}}

\* the strings pandas can convert to a number
IsNumeric(v) == v \in {"10"}

\* pd.read_json(filepath, lines=True) on the userId and firstName columns: a
\* column whose non-null values all convert to numbers becomes float64 and
\* holds NaN for a JSON null; any other column stays object and holds None.
NullOf(column) ==
    IF \A k \in 1..Len(column) : column[k] = JsonNull \/ IsNumeric(column[k])
    THEN NaN ELSE PyNone

ReadJson(lines) ==
    LET userNull == NullOf([k \in 1..Len(lines) |-> lines[k].userId])
        nameNull == NullOf([k \in 1..Len(lines) |-> lines[k].firstName])
    IN [k \in 1..Len(lines) |->
          [lines[k] EXCEPT
              !.userId = IF @ = JsonNull THEN userNull ELSE @,
              !.firstName = IF @ = JsonNull THEN nameNull ELSE @]]

RECURSIVE SeqsUpTo(_, _)
\* the sequences over S of length at most n
SeqsUpTo(S, n) ==
    IF n = 0 THEN {<<>>}
    ELSE LET shorter == SeqsUpTo(S, n - 1)
         IN shorter \cup {Append(s, x) : s \in {t \in shorter : Len(t) = n - 1}, x \in S}

LogFiles == SeqsUpTo(LogLines, MaxRecords)

\* the log files of the batch runs
BatchLogFiles ==
    { <<LogRecord("NextSong", 18000000, "10", "A", "T")>>,
      <<LogRecord("NextSong", 950400000, "10", JsonNull, "U"),
        LogRecord("Home", 18000000, EmptyStr, "A", "T")>>,
      <<LogRecord("Home", 18000000, JsonNull, JsonNull, "U")>> }

---------------------------------------------------------------------------
(* The store handle: the open transaction and the committed contents *)

Tag(stmts, src) ==
    [k \in 1..Len(stmts) |-> [q |-> stmts[k].q, args |-> stmts[k].args, src |-> src]]

IsWrite(st) == st.q # "song_select"

Writes(stmts) == SelectSeq(stmts, IsWrite)

\* what a statement of the open transaction sees
Visible == committed \o Writes(txn)

\* conn.commit()
Commit(store, t) == store \o Writes(t)

\* mutant of Rollback: the pending writes are kept
RollbackKeepsWrites(store, t) == store \o Writes(t)

\* conn.rollback()
Rollback(store, t) == store

---------------------------------------------------------------------------
(* main and process_data *)

\* mutant of MainCalls: the log root is processed first
MainCallsLogFirst == <<"log", "song">>

\* the process_data calls of main, in order
MainCalls == <<"song", "log">>

Pass == IF call_no \in 1..Len(MainCalls) THEN MainCalls[call_no] ELSE "none"

\* func(cur, datafile): the statements of a run in which none raises
func(p, d, store) ==
    IF p = "song" THEN process_song_file(d, store) ELSE process_log_file(ReadJson(d), store)

InputFiles(p) == IF p = "song" THEN SongFiles ELSE BatchLogFiles

\* one entry of the call history: the call, the file it was made for (pass, i
\* of n), how it ended, the writes of a transformer run that returned, and
\* whether a transformer run that raised had already executed a write
Event(op, result, writes, partial) ==
    [op |-> op, pass |-> Pass, i |-> idx, n |-> num_files, result |-> result,
     writes |-> writes, partial |-> partial]

Init ==
    /\ pc = "main"
    /\ handle = "unbound"
    /\ call_no = 0
    /\ num_files = 0
    /\ idx = 0
    /\ exc = "none"
    /\ txn = <<>>
    /\ committed = <<>>
    /\ stdout = <<>>
    /\ calls = <<>>
    /\ df = <<>>

\* psycopg2.connect(...) and conn.cursor() both succeed
ConnectOk ==
    /\ pc = "main"
    /\ handle' = "open"
    /\ pc' = "call"
    /\ call_no' = 1
    /\ UNCHANGED <<num_files, idx, exc, txn, committed, stdout, calls, df>>

\* psycopg2.connect(...) or conn.cursor() raises psycopg2.Error: the handler
\* prints the error and main goes on to its next statement
ConnectFails ==
    /\ pc = "main"
    /\ \E h \in {"unbound", "conn_only"} : handle' = h
    /\ stdout' = Append(stdout, <<"Error connecting to the database">>)
    /\ pc' = "call"
    /\ call_no' = 1
    /\ UNCHANGED <<num_files, idx, exc, txn, committed, calls, df>>

\* mutant of ArgumentsBound: conn and cur initialised before the try
ArgumentsAlwaysBound == TRUE

\* the names cur and conn are both bound when the call's arguments are evaluated
ArgumentsBound == handle = "open"

\* process_data(cur, conn, filepath, func): entry, os.walk and the first print
EnterProcessData ==
    /\ pc = "call"
    /\ ArgumentsBound
    /\ \E n \in 0..MaxFiles :
        /\ num_files' = n
        /\ stdout' = Append(stdout, <<"files found", n, Pass>>)
    /\ idx' = 1
    /\ pc' = "loop"
    /\ UNCHANGED <<handle, call_no, exc, txn, committed, calls, df>>

\* evaluating the unbound name cur raises UnboundLocalError in main
CallRaisesUnbound ==
    /\ pc = "call"
    /\ ~ArgumentsBound
    /\ exc' = "unbound"
    /\ pc' = "crashed"
    /\ UNCHANGED <<handle, call_no, num_files, idx, txn, committed, stdout, calls, df>>

\* func(cur, datafile) returns: every statement of the file was executed
FuncReturns ==
    /\ pc = "loop"
    /\ idx <= num_files
    /\ \E d \in InputFiles(Pass) :
        LET stmts == Tag(func(Pass, d, Visible), <<Pass, idx>>)
        IN /\ txn' = txn \o stmts
           /\ calls' = Append(calls, Event("func", "returned", Writes(stmts), FALSE))
    /\ pc' = "commit"
    /\ UNCHANGED <<handle, call_no, num_files, idx, exc, committed, stdout, df>>

\* func(cur, datafile) raises psycopg2.Error at its k-th statement
FuncRaisesStoreError ==
    /\ pc = "loop"
    /\ idx <= num_files
    /\ \E d \in InputFiles(Pass) :
        LET stmts == Tag(func(Pass, d, Visible), <<Pass, idx>>)
        IN \E k \in 1..Len(stmts) :
            /\ txn' = txn \o Prefix(stmts, k - 1)
            /\ calls' = Append(calls, Event("func", "store_error", <<>>,
                                           Writes(Prefix(stmts, k - 1)) # <<>>))
    /\ exc' = "store"
    /\ pc' = "raised"
    /\ UNCHANGED <<handle, call_no, num_files, idx, committed, stdout, df>>

\* pd.read_json raises on a malformed file (ValueError): no statement executed
FuncRaisesParseError ==
    /\ pc = "loop"
    /\ idx <= num_files
    /\ calls' = Append(calls, Event("func", "other_error", <<>>, FALSE))
    /\ exc' = "other"
    /\ pc' = "raised"
    /\ UNCHANGED <<handle, call_no, num_files, idx, txn, committed, stdout, df>>

\* the except clause of process_data catches psycopg2.Error only
Catches(e) == e = "store"

\* print('{}/{} files processed.'.format(i, num_files))
ProgressLine(i, n) == <<"files processed", i, n>>

\* conn.commit() succeeds, then the progress line is printed
CommitOk ==
    /\ pc = "commit"
    /\ committed' = Commit(committed, txn)
    /\ txn' = <<>>
    /\ calls' = Append(calls, Event("commit", "ok", <<>>, FALSE))
    /\ stdout' = Append(stdout, ProgressLine(idx, num_files))
    /\ idx' = idx + 1
    /\ pc' = "loop"
    /\ UNCHANGED <<handle, call_no, num_files, exc, df>>

\* conn.commit() raises psycopg2.Error
CommitRaises ==
    /\ pc = "commit"
    /\ calls' = Append(calls, Event("commit", "store_error", <<>>, FALSE))
    /\ exc' = "store"
    /\ pc' = "raised"
    /\ UNCHANGED <<handle, call_no, num_files, idx, txn, committed, stdout, df>>

\* where the loop goes after the except clause has handled file i
AfterHandler(i) == [pc |-> "loop", idx |-> i + 1]

\* mutant of HandlerOutput: the progress line printed for a failed file too
HandlerOutputWithProgress(i, n, p) == << <<"Database Error", i, p>>, <<"files processed", i, n>> >>

\* what the except clause prints: the error report, with the file and the
\* transformer's name
HandlerOutput(i, n, p) == << <<"Database Error", i, p>> >>

\* except psycopg2.Error: print the error, conn.rollback(), next file
HandleStoreError ==
    /\ pc = "raised"
    /\ Catches(exc)
    /\ stdout' = stdout \o HandlerOutput(idx, num_files, Pass)
    /\ committed' = Rollback(committed, txn)
    /\ txn' = <<>>
    /\ calls' = Append(calls, Event("rollback", "ok", <<>>, FALSE))
    /\ exc' = "none"
    /\ pc' = AfterHandler(idx).pc
    /\ idx' = AfterHandler(idx).idx
    /\ UNCHANGED <<handle, call_no, num_files, df>>

\* an exception the except clause does not catch leaves process_data and main
Propagate ==
    /\ pc = "raised"
    /\ ~Catches(exc)
    /\ pc' = "crashed"
    /\ UNCHANGED <<handle, call_no, num_files, idx, exc, txn, committed, stdout, calls, df>>

\* the for loop is exhausted: process_data returns to main
ReturnToMain ==
    /\ pc = "loop"
    /\ idx > num_files
    /\ IF call_no < Len(MainCalls)
       THEN /\ call_no' = call_no + 1
            /\ pc' = "call"
       ELSE /\ call_no' = call_no
            /\ pc' = "close"
    /\ UNCHANGED <<handle, num_files, idx, exc, txn, committed, stdout, calls, df>>

\* conn.close()
Close ==
    /\ pc = "close"
    /\ handle' = "closed"
    /\ pc' = "exit"
    /\ UNCHANGED <<call_no, num_files, idx, exc, txn, committed, stdout, calls, df>>

Next ==
    \/ ConnectOk
    \/ ConnectFails
    \/ EnterProcessData
    \/ CallRaisesUnbound
    \/ FuncReturns
    \/ FuncRaisesStoreError
    \/ FuncRaisesParseError
    \/ Propagate
    \/ CommitOk
    \/ CommitRaises
    \/ HandleStoreError
    \/ ReturnToMain
    \/ Close

Spec == Init /\ [][Next]_vars

---------------------------------------------------------------------------
(* process_log_file on its own: one log file against a given store *)

\* store contents a log file can meet: nothing loaded, or both songs loaded
Stores ==
    { <<>>,
      Tag(process_song_file(<<SongA>>, <<>>), <<"song", 1>>)
        \o Tag(process_song_file(<<SongB>>, <<>>), <<"song", 2>>) }

InitLog ==
    /\ pc = "log_file"
    /\ handle = "open"
    /\ call_no = Len(MainCalls)
    /\ num_files = 1
    /\ idx = 1
    /\ exc = "none"
    /\ txn = <<>>
    /\ committed \in Stores
    /\ stdout = <<>>
    /\ calls = <<>>
    /\ df \in {ReadJson(lines) : lines \in LogFiles}

\* process_log_file(cur, filepath) runs to its end
LogFileReturns ==
    /\ pc = "log_file"
    /\ txn' = Tag(process_log_file(df, Visible), <<"log", idx>>)
    /\ pc' = "log_returned"
    /\ UNCHANGED <<handle, call_no, num_files, idx, exc, committed, stdout, calls, df>>

\* its k-th statement raises psycopg2.Error
LogFileRaises ==
    /\ pc = "log_file"
    /\ \E k \in 1..Len(process_log_file(df, Visible)) :
        txn' = Tag(Prefix(process_log_file(df, Visible), k - 1), <<"log", idx>>)
    /\ exc' = "store"
    /\ pc' = "log_raised"
    /\ UNCHANGED <<handle, call_no, num_files, idx, committed, stdout, calls, df>>

NextLog == LogFileReturns \/ LogFileRaises

LogSpec == InitLog /\ [][NextLog]_vars

---------------------------------------------------------------------------
(* Views of the call history and of the output, used by the properties *)

IsFuncCall(e, p, i) == e.op = "func" /\ e.pass = p /\ e.i = i

\* a transaction boundary: a commit that succeeded, or a rollback
IsBoundary(e) == e.op \in {"commit", "rollback"} /\ e.result = "ok"

Attempted(p, i) == \E j \in 1..Len(calls) : IsFuncCall(calls[j], p, i)

Bounded(p, i) ==
    \E j \in 1..Len(calls) : IsBoundary(calls[j]) /\ calls[j].pass = p /\ calls[j].i = i

\* main has ended: normally, or by an uncaught exception
Ended == pc \in {"exit", "crashed"}

ConnectFailureReported ==
    \E k \in 1..Len(stdout) : stdout[k] = <<"Error connecting to the database">>

Entered(p) ==
    \E k \in 1..Len(stdout) : stdout[k][1] = "files found" /\ stdout[k][3] = p

\* the writes of the files whose transformer returned and whose commit succeeded
CommittedFileWrites ==
    Flatten([j \in 1..Len(calls) |->
        IF /\ calls[j].op = "func" /\ calls[j].result = "returned"
           /\ j < Len(calls) /\ calls[j + 1].op = "commit" /\ calls[j + 1].result = "ok"
        THEN calls[j].writes ELSE <<>>])

\* the writes of the files whose transformer returned
ReturnedFileWrites ==
    Flatten([j \in 1..Len(calls) |->
        IF calls[j].op = "func" /\ calls[j].result = "returned"
        THEN calls[j].writes ELSE <<>>])

---------------------------------------------------------------------------
(* Properties of process_data and main, checked under Spec *)

\* C1: if the transformer or the commit of file N raises a store error, the
\* transaction of file N is rolled back, and every file N+1..end is passed to
\* the transformer and committed or rolled back on its own outcome.
C1_ErrorIsolation ==
    \A j \in 1..Len(calls) :
        calls[j].result = "store_error" =>
            /\ j < Len(calls) =>
                 /\ calls[j + 1].op = "rollback"
                 /\ calls[j + 1].pass = calls[j].pass
                 /\ calls[j + 1].i = calls[j].i
            /\ Ended =>
                 \A i \in (calls[j].i + 1)..calls[j].n :
                     Attempted(calls[j].pass, i) /\ Bounded(calls[j].pass, i)

\* The store-error path on its own: a store error is always caught, the next
\* call is the rollback of that file, and the loop goes on with the next file.
StoreErrorHandled ==
    /\ pc = "crashed" => exc # "store"
    /\ \A j \in 1..Len(calls) :
        calls[j].result = "store_error" =>
            /\ j = Len(calls) => pc = "raised" /\ exc = "store"
            /\ j < Len(calls) =>
                 /\ calls[j + 1].op = "rollback"
                 /\ calls[j + 1].pass = calls[j].pass /\ calls[j + 1].i = calls[j].i
            /\ j + 1 = Len(calls) =>
                 /\ txn = <<>>
                 /\ pc \in {"loop", "call", "close", "exit"}
                 /\ (pc = "loop" /\ Pass = calls[j].pass) => idx = calls[j].i + 1
            /\ (j + 1 < Len(calls) /\ calls[j].i < calls[j].n) =>
                 IsFuncCall(calls[j + 2], calls[j].pass, calls[j].i + 1)

\* C2 as stated: the committed contents are exactly the writes of the files
\* whose transformer completed without a store error.
C2_CommittedIsReturnedFiles ==
    pc \in {"loop", "call", "close", "exit"} => committed = ReturnedFileWrites

\* C2 as amended: the committed contents are exactly the writes of the files
\* whose transformer and commit both completed without a store error, in file
\* order; nothing of a file that raised part-way is committed, and a rollback
\* leaves the writes committed for earlier files as they were.
C2_PerFileAtomicity ==
    /\ committed = CommittedFileWrites
    /\ \A k \in 1..Len(committed) :
        \E j \in 1..Len(calls) :
            /\ IsFuncCall(calls[j], committed[k].src[1], committed[k].src[2])
            /\ calls[j].result = "returned"

\* a log file raised after some of its writes, was rolled back, and the
\* writes committed before it are still there
C2_Witness ==
    /\ committed # <<>>
    /\ Len(calls) >= 2
    /\ calls[Len(calls)].op = "rollback"
    /\ calls[Len(calls) - 1].op = "func"
    /\ calls[Len(calls) - 1].pass = "log"
    /\ calls[Len(calls) - 1].partial
    /\ \E j \in 1..Len(calls) : calls[j].op = "commit" /\ calls[j].result = "store_error"

\* C3 as stated: once the file at position i has been attempted, the line
\* 'i/n files processed' is printed, whether it was committed or rolled back.
C3_ProgressAfterEveryFile ==
    (pc = "loop" /\ idx > 1) => stdout[Len(stdout)] = <<"files processed", idx - 1, num_files>>

\* C3 as amended: the progress lines are exactly the lines 'i/n files
\* processed' of the files whose commit succeeded, in order; a file that is
\* rolled back gets the error report and no progress line, and the position
\* i advances on failure as well.
C3_ProgressOnCommitOnly ==
    LET lines == SelectSeq(stdout, LAMBDA l : l[1] = "files processed")
        commits == SelectSeq(calls, LAMBDA e : e.op = "commit" /\ e.result = "ok")
        reports == SelectSeq(stdout, LAMBDA l : l[1] = "Database Error")
        rollbacks == SelectSeq(calls, LAMBDA e : e.op = "rollback")
    IN /\ Len(lines) = Len(commits)
       /\ \A k \in 1..Len(lines) : lines[k] = <<"files processed", commits[k].i, commits[k].n>>
       /\ Len(reports) = Len(rollbacks)
       /\ \A k \in 1..Len(reports) :
            reports[k] = <<"Database Error", rollbacks[k].i, rollbacks[k].pass>>
       /\ (pc = "loop" /\ idx > 1) =>
            \/ /\ calls[Len(calls)].op = "commit"
               /\ stdout[Len(stdout)] = <<"files processed", idx - 1, num_files>>
            \/ /\ calls[Len(calls)].op = "rollback"
               /\ stdout[Len(stdout)] = <<"Database Error", idx - 1, Pass>>

\* file 1 of 2 was rolled back, file 2 of 2 was committed: '2/2' is printed
\* and '1/2' is not
C3_Witness ==
    /\ pc = "loop" /\ idx = 3 /\ num_files = 2 /\ Pass = "song"
    /\ \E j \in 1..Len(calls) : calls[j].op = "rollback" /\ calls[j].i = 1
    /\ stdout[Len(stdout)] = <<"files processed", 2, 2>>
    /\ \A k \in 1..Len(stdout) : stdout[k] # <<"files processed", 1, 2>>

\* C4: a transformer that fails with any per-file error, a parse error
\* included, does not abort the batch: files N+1..end are still processed.
C4_AllErrorsContained ==
    /\ pc = "crashed" => exc = "unbound"
    /\ Ended =>
        \A j \in 1..Len(calls) :
            calls[j].op = "func" =>
                \A i \in calls[j].i..calls[j].n : Attempted(calls[j].pass, i)

\* C8 as stated: when the connection fails, the failure is reported and
\* process_data is still invoked, for the song root and then the log root.
C8_ProceedsWithUnusableHandle ==
    (ConnectFailureReported /\ Ended) => Entered("song") /\ Entered("log")

\* C8 as amended: when the connection fails, the failure is reported and main
\* goes on to its first process_data call, where evaluating the unbound handle
\* raises before process_data is entered: no file of either root is found,
\* attempted or committed, and main ends with that uncaught exception.
C8_StopsAtFirstCall ==
    ConnectFailureReported =>
        /\ handle \in {"unbound", "conn_only"}
        /\ stdout = << <<"Error connecting to the database">> >>
        /\ calls = <<>> /\ committed = <<>> /\ txn = <<>>
        /\ ~Entered("song") /\ ~Entered("log")
        /\ call_no = 1
        /\ pc \in {"call", "crashed"}
        /\ pc = "crashed" => exc = "unbound"

\* the connection failed, and main has ended at its first process_data call
C8_Witness == ConnectFailureReported /\ pc = "crashed" /\ exc = "unbound"

\* C9: files are attempted strictly in list order, each exactly once, each
\* attempt is followed by exactly one commit or rollback before the next
\* file's transformer starts, and the run gives every file of the list its
\* boundary and ends after the last file.
C9_TransactionDiscipline ==
    /\ \A j \in 1..Len(calls) :
        calls[j].op = "func" =>
            \* list order, no retry: the attempts of a pass are 1, 2, 3, ...
            /\ Cardinality({k \in 1..j : calls[k].op = "func" /\ calls[k].pass = calls[j].pass})
                 = calls[j].i
            \* one boundary for the previous attempt before this one starts
            /\ j > 1 => IsBoundary(calls[j - 1])
            /\ Cardinality({k \in 1..j : IsBoundary(calls[k]) /\ calls[k].pass = calls[j].pass})
                 = calls[j].i - 1
    /\ Ended =>
        \A j \in 1..Len(calls) :
            \A i \in 1..calls[j].n :
                Cardinality({k \in 1..Len(calls) :
                    IsBoundary(calls[k]) /\ calls[k].pass = calls[j].pass /\ calls[k].i = i}) = 1

\* C10: when a log file's transformer starts, every song file has been
\* attempted and committed or rolled back; no song or artist write follows
\* a songplay lookup, and the lookups see every committed song row.
C10_SongsBeforeLogs ==
    /\ (Pass = "log" /\ pc \in {"loop", "commit", "raised"}) =>
        /\ Entered("song")
        /\ \A k \in 1..Len(stdout) :
            (stdout[k][1] = "files found" /\ stdout[k][3] = "song") =>
                \A i \in 1..stdout[k][2] : Attempted("song", i) /\ Bounded("song", i)
    /\ \A j, k \in 1..Len(calls) :
        (j < k /\ calls[j].pass = "log") => calls[k].pass = "log"
    /\ \A j, k \in 1..Len(committed) :
        (j < k /\ committed[j].src[1] = "log") => committed[k].src[1] = "log"
    /\ \A k \in 1..Len(txn) :
        txn[k].q = "song_select" =>
            /\ txn[k].src[1] = "log"
            /\ \A m \in 1..Len(txn) : txn[m].q \notin {"song_table_insert", "artist_table_insert"}
            /\ \A m \in 1..Len(committed) :
                 committed[m].src[1] = "song" => Bounded("song", committed[m].src[2])

\* a songplay row resolved against a song row the song pass had committed
C10_Witness ==
    /\ \E k \in 1..Len(committed) :
        committed[k].q = "song_table_insert" /\ committed[k].src[1] = "song"
    /\ \E k \in 1..Len(txn) :
        txn[k].q = "songplay_table_insert" /\ txn[k].src[1] = "log"

---------------------------------------------------------------------------
(* Properties of process_log_file, checked under LogSpec *)

StatementsOf(query) == SelectSeq(txn, LAMBDA st : st.q = query)

\* C5: for every record of a log file one lookup by (song title, duration) is
\* issued, and a songplay insert is issued for the record if and only if its
\* user_id is present (not null, not empty) and the lookup returned a row
\* with both song_id and artist_id present; the inserts follow file order.
C5_SongplayEmission ==
    pc = "log_returned" =>
        LET lookups == StatementsOf("song_select")
            inserts == StatementsOf("songplay_table_insert")
            Present(v) == ~IsNull(v) /\ v # EmptyStr
            Found(r) == song_select(committed, r.song, r.length)
            Expected(r) ==
                /\ Present(r.userId)
                /\ Found(r) # <<>>
                /\ Present(Found(r)[1]) /\ Present(Found(r)[2])
            expected == SelectSeq(df, Expected)
        IN /\ Len(lookups) = Len(df)
           /\ \A k \in 1..Len(df) : lookups[k].args = <<df[k].song, df[k].length>>
           /\ Len(inserts) = Len(expected)
           /\ \A k \in 1..Len(inserts) :
                /\ inserts[k].args[2] = expected[k].ts
                /\ inserts[k].args[3] = expected[k].userId
                /\ inserts[k].args[5] = Found(expected[k])[1]
                /\ inserts[k].args[6] = Found(expected[k])[2]

\* C6: the user inserts of one log file never hold two rows with the same
\* user_id nor a row with a null field; they are the first occurrence of each
\* user_id in file order, less the rows with a null field, so a user_id whose
\* first occurrence has a null field yields no row even if a later one is
\* complete.
C6_UserRows ==
    LET rows == StatementsOf("user_table_insert")
        Row(j) == <<df[j].userId, df[j].firstName, df[j].lastName, df[j].gender, df[j].level>>
        first == {j \in 1..Len(df) : \A i \in 1..(j - 1) : df[i].userId # df[j].userId}
        kept == {j \in first : \A f \in 1..5 : ~IsNull(Row(j)[f])}
    IN /\ \A j, k \in 1..Len(rows) : j # k => rows[j].args[1] # rows[k].args[1]
       /\ \A k \in 1..Len(rows) : \A f \in 1..5 : ~IsNull(rows[k].args[f])
       /\ Len(rows) <= Cardinality(kept)
       /\ pc = "log_returned" => Len(rows) = Cardinality(kept)
       /\ \A k \in 1..Len(rows) :
            \E j \in kept :
                /\ rows[k].args = Row(j)
                /\ Cardinality({i \in kept : i < j}) = k - 1

\* a user_id whose first record has a null field and whose second is complete:
\* no user row
C6_Witness ==
    /\ pc = "log_returned"
    /\ Len(df) = 2
    /\ df[1].userId = "10" /\ df[2].userId = "10"
    /\ IsNull(df[1].firstName) /\ ~IsNull(df[2].firstName)
    /\ StatementsOf("user_table_insert") = <<>>

\* C7: the time inserts of one log file are one per record whose page is
\* "NextSong", in file order, equal timestamps not merged, and none for a
\* record with another page.
C7_TimeRows ==
    LET rows == StatementsOf("time_table_insert")
        played == SelectSeq(df, LAMBDA r : r.page = "NextSong")
    IN /\ Len(rows) <= Len(played)
       /\ pc = "log_returned" => Len(rows) = Len(played)
       /\ \A k \in 1..Len(rows) :
            /\ rows[k].args[1] = played[k].ts
            /\ txn[k] = rows[k]

\* two NextSong records with one timestamp: two time inserts
C7_Witness ==
    /\ pc = "log_returned"
    /\ Len(df) = 2
    /\ df[1].page = "NextSong" /\ df[2].page = "NextSong"
    /\ df[1].ts = df[2].ts
    /\ Len(StatementsOf("time_table_insert")) = 2

====
